---- MODULE Spec2Model ----
(***************************************************************************)
(* Playback subsystem of pepe-grillo:                                      *)
(*   src/src/discord/services/VoiceService.js  (VoiceService)              *)
(*   src/src/commands/StopCommand.js           (/stop -> disconnect)       *)
(*   src/src/discord/services/AudioService.js  (playSound)                 *)
(*   src/src/database/CacheService.js          (audio cache over Redis)    *)
(*                                                                         *)
(* Three specifications share the variables: Spec and FairSpec run the     *)
(* VoiceService under arbitrary playAudio callers, CacheSpec runs the      *)
(* CacheService on its own, AudioSpec runs playSound over both.            *)
(*                                                                         *)
(* The service runs on one event loop.  Every `await` of playAudio and of  *)
(* its event handlers is a suspension point, so each action below is the   *)
(* code that runs between two suspension points.                          *)
(*                                                                         *)
(* The @discordjs/voice objects the service drives are modelled by what    *)
(* the calls in the source do to them:                                     *)
(*   - joinVoiceChannel returns the guild's tracked connection when one    *)
(*     exists that is not Destroyed, else a new connection in Signalling;  *)
(*   - connection.destroy() throws on a connection already Destroyed, and  *)
(*     drops the connection's subscription;                                *)
(*   - connection.subscribe(player) replaces the connection's player;      *)
(*   - createAudioPlayer() has the default noSubscriber behaviour: a       *)
(*     player streams only while a Ready connection is subscribed to it;   *)
(*   - player.play(resource) replaces the playing resource without an Idle *)
(*     event; a stream error emits 'error' and then Idle.                  *)
(* Only this service destroys connections.                                 *)
(*                                                                         *)
(* Redis is modelled as a keyspace of base64 strings with a time to live;  *)
(* commands of the one client are served in the order they are issued.     *)
(***************************************************************************)
EXTENDS Integers, FiniteSets, Sequences, TLC

\* Guild ids of the model.
Guilds == {"A", "B"}
\* Number of playAudio invocations of a behaviour.
MaxCalls == 2
\* Last value of the clock (Date.now() and timer deadlines are read off it).
MaxTime == 3
\* config.bot.autoDisconnectDelay, in clock units of the model.
IdleDelay == 2

Calls == 1..MaxCalls
\* A connection and a player are named after the call that created them.
Conns == Calls
Players == Calls

\* connections.get(guildId) === undefined
NoEntry == [connection |-> 0, player |-> 0]
\* disconnectTimers.has(guildId) === false
NoTimer == -1

VARIABLES
  now,               \* the clock: Date.now()
  files,             \* names of the files present in temp/ (temp_<n>.mp3 is n)
  connections,       \* this.connections: guild -> {connection, player}
  disconnectTimers,  \* this.disconnectTimers: guild -> timer handle (its deadline)
  armed,             \* timers scheduled in the event loop, not yet fired or cleared
  call,              \* the playAudio invocations: position and locals
  connStatus,        \* VoiceConnection.state.status, "none" before it is created
  reconnecting,      \* a Disconnected handler of the connection awaits re-entry
  subscription,      \* the player a connection is subscribed to, 0 if none
  player,            \* AudioPlayer: status and the call whose resource it plays
  idleListeners,     \* calls whose once(Idle) listener is registered on a player
  jobs               \* Idle/error handler runs of a call's closures awaiting unlink

VARIABLES
  connected,         \* CacheService.connected
  store,             \* the Redis keyspace: audio:<url> -> base64 string and ttl
  got,               \* what the last getAudio returned
  last,              \* the last call of getAudio/setAudio/clearAudio: how it went
  written,           \* per key: the last setAudio Redis served, and its age
  cacheService,      \* AudioService.cacheService: "present", or "none" (undefined)
  req,               \* the AudioService.playSound invocations: position and locals
  sounds,            \* table guild_sounds: <<guild, sound_url>> rows, oldest first
  cmd                \* the PlayCommand.execute invocations: position and locals

vars == <<now, files, connections, disconnectTimers, armed, call, connStatus,
          reconnecting, subscription, player, idleListeners, jobs>>

\* rank: how many calls already awaited Ready on the connection when this one
\* began to (the order in which the awaits at line 100 were entered).
\* The state outside VoiceService.
others == <<connected, store, got, last, written, cacheService, req, sounds, cmd>>
allVars == <<vars, others>>

NewCall == [pc |-> "new", guild |-> "A", tempFile |-> 0, connection |-> 0, player |-> 0,
            rank |-> 0, channel |-> TRUE]

\* Source URLs of sounds, and the playSound invocations (one playAudio each).
Urls == {"u", "v"}
Reqs == Calls

\* Audio payloads: byte sequences of up to MaxLen bytes.
MaxLen == 2
Bytes == {0, 255}
Payloads == UNION {[1..n -> Bytes] : n \in 0..MaxLen}

\* The symbol '=' of base64; the other symbols are their values 0..63.
Pad == 64

\* setAudio's default ttl (7 days), in steps of the cache's clock.
DefaultTtl == 2
Ttls == 1..DefaultTtl

\* client.get(key) === null: no such key.
NoValue == [data |-> <<>>, ttl |-> 0]
\* getAudio returning null.
Null == [hit |-> FALSE, bytes |-> <<>>]

\* The locals of a playSound invocation, and what is observed of it:
\*   lookup   what getAudio did: "hit", "miss", "down" (not connected), "error"
\*   source   where audioBuffer came from: "cache", "network", "failed" download
\*   invoked  the downloader was called
\*   put      what setAudio did: "stored", "down" (not connected), "error"
\*   result   what playSound returned
\*   cold     the cache held nothing for the URL when the request began
\*   after    the requests that had returned when this one began
\*   stopped  a /stop of the guild ran while the request fetched its audio
NewReq == [pc |-> "idle", guild |-> "A", url |-> "u", lookup |-> "none",
           channel |-> TRUE, found |-> TRUE,
           source |-> "none", bytes |-> <<>>, invoked |-> FALSE, put |-> "none",
           result |-> "none", cold |-> FALSE, after |-> {}, stopped |-> FALSE]

\* No method of the CacheService has been called yet.
NoCall == [op |-> "none", conn |-> FALSE, failed |-> FALSE, end |-> "none"]

\* setAudio called without its third argument (ttl = 604800, line 103).
NoTtl == 0

\* No setAudio of the key has reached Redis, or a clearAudio removed it.
NotWritten == [set |-> FALSE, arg |-> NoTtl, age |-> 0, bytes |-> <<>>]

\* The /play commands modelled, one playAudio each, and the sound URLs they
\* and the table may name.
Cmds == Calls
RepoUrls == {"u", "v", "w"}

\* config.bot.maxSoundsPerGuild (config.js line 30: 100), scaled down.
MaxSoundsPerGuild == 2

\* The locals of execute before the command is issued.  isDuplicate: the
\* answer of line 91; add: how addSound ended ("none": not called);
\* evicted: the row its removeOldest deleted; conflict: its INSERT met the
\* unique constraint; failed: some repository call rejected; played:
\* voiceService.playAudio was called.
NoRow == <<>>
NewCmd == [pc |-> "idle", guild |-> "A", url |-> "u", valid |-> TRUE,
           isDuplicate |-> FALSE, download |-> "none", add |-> "none",
           evicted |-> NoRow, held |-> FALSE, conflict |-> FALSE,
           failed |-> FALSE, played |-> FALSE]

\* An empty table and no /play command running.
RepoIdle ==
  /\ sounds = <<>>
  /\ cmd = [k \in Cmds |-> NewCmd]

\* A CacheService before connect() and an empty Redis; no playSound running.
CacheInit ==
  /\ connected = FALSE
  /\ store = [u \in Urls |-> NoValue]
  /\ got = Null
  /\ last = NoCall
  /\ written = [u \in Urls |-> NotWritten]
  /\ req = [i \in Reqs |-> NewReq]

\* A new VoiceService (constructor, lines 24-29) and an empty temp directory.
VoiceInit ==
  /\ now = 0
  /\ files = {}
  /\ connections = [g \in Guilds |-> NoEntry]
  /\ disconnectTimers = [g \in Guilds |-> NoTimer]
  /\ armed = {}
  /\ call = [k \in Calls |-> NewCall]
  /\ connStatus = [c \in Conns |-> "none"]
  /\ reconnecting = [c \in Conns |-> FALSE]
  /\ subscription = [c \in Conns |-> 0]
  /\ player = [p \in Players |-> [status |-> "none", resource |-> 0]]
  /\ idleListeners = [p \in Players |-> {}]
  /\ jobs = [k \in Calls |-> 0]

\* The Bot builds its AudioService without a cache service.
Init == VoiceInit /\ CacheInit /\ RepoIdle /\ cacheService = "none"

\* The guild a connection was joined for (guildId of its creating call).
ConnGuild(c) == call[c].guild

\* getVoiceConnection(guildId): the guild's tracked, not Destroyed connections.
Tracked(g) == {c \in Conns : /\ connStatus[c] \notin {"none", "destroyed"}
                             /\ ConnGuild(c) = g}

----------------------------------------------------------------------------
\* Unlink as it would be if the unlink were left out.
UnlinkSkipped(fs, f) == fs

\* unlink(tempFile).catch(() => {}): remove the name if present, never fail.
Unlink(fs, f) == fs \ {f}

\* destroy() as it would be if the connection were left as it is.
DestroySkipped(st, c) == st

\* The state a VoiceConnection.destroy() leaves: Destroyed, no subscription.
\* (The call sites test for the throw on an already Destroyed connection.)
DestroyedStatus(st, c) == [st EXCEPT ![c] = "destroyed"]
Unsubscribed(sub, c) == [sub EXCEPT ![c] = 0]

\* The reuse test as it would be if it asked for a Ready connection.
ReusableWhenReady(entry) ==
  /\ entry # NoEntry
  /\ connStatus[entry.connection] = "ready"

\* The reuse test of playAudio, lines 60-63.
Reusable(entry) ==
  /\ entry # NoEntry
  /\ connStatus[entry.connection] # "destroyed"

\* scheduleDisconnect as it would be without the clearTimeout of lines 191-193.
ScheduleDisconnectNoClear(g, timers, pending) ==
  [disconnectTimers |-> [timers EXCEPT ![g] = now + IdleDelay],
   armed |-> pending \cup {[guild |-> g, due |-> now + IdleDelay]}]

\* scheduleDisconnect(guildId), lines 189-209: the timer state it leaves.
ScheduleDisconnect(g, timers, pending) ==
  LET cleared == IF timers[g] # NoTimer
                   THEN pending \ {[guild |-> g, due |-> timers[g]]}
                   ELSE pending
      due == now + IdleDelay
  IN  [disconnectTimers |-> [timers EXCEPT ![g] = due],
       armed |-> cleared \cup {[guild |-> g, due |-> due]}]

\* disconnect(guildId), lines 166-183: the state it leaves and what it returns.
DisconnectResult(g) ==
  LET entry == connections[g] IN
  IF entry = NoEntry
    THEN [ret |-> "false", connections |-> connections,
          disconnectTimers |-> disconnectTimers, armed |-> armed,
          connStatus |-> connStatus, subscription |-> subscription]
    ELSE LET timers == [disconnectTimers EXCEPT ![g] = NoTimer]
             pending == IF disconnectTimers[g] # NoTimer
                          THEN armed \ {[guild |-> g, due |-> disconnectTimers[g]]}
                          ELSE armed
         IN  IF connStatus[entry.connection] = "destroyed"
               \* destroy() throws: the entry stays, disconnect does not return
               THEN [ret |-> "threw", connections |-> connections,
                     disconnectTimers |-> timers, armed |-> pending,
                     connStatus |-> connStatus, subscription |-> subscription]
               ELSE [ret |-> "true",
                     connections |-> [connections EXCEPT ![g] = NoEntry],
                     disconnectTimers |-> timers, armed |-> pending,
                     connStatus |-> DestroyedStatus(connStatus, entry.connection),
                     subscription |-> Unsubscribed(subscription, entry.connection)]

----------------------------------------------------------------------------
\* playAudio, lines 40-48: name the temporary file after the clock and start
\* writing it; the call then awaits the stream's 'finish' or 'error'.
StartedCall(g) == [pc |-> "write", guild |-> g, tempFile |-> now,
                   connection |-> 0, player |-> 0, rank |-> 0, channel |-> TRUE]

PlayAudio(g) ==
  \E k \in Calls :
    /\ call[k].pc = "new"
    /\ \A j \in Calls : j < k => call[j].pc # "new"
    /\ call' = [call EXCEPT ![k] = StartedCall(g)]
    /\ UNCHANGED <<others, now, files, connections, disconnectTimers, armed, connStatus,
                   reconnecting, subscription, player, idleListeners, jobs>>

\* player.play as it would be if a playing resource were not replaced.
PlayedIfIdle(pl, k, p) ==
  IF pl[p].status = "playing" THEN pl
                              ELSE [pl EXCEPT ![p] = [status |-> "playing", resource |-> k]]

\* Lines 130-141 for call k on connection c and player p: play the resource,
\* subscribe the connection, register the once(Idle) listener.
Played(pl, k, p) == [pl EXCEPT ![p] = [status |-> "playing", resource |-> k]]
Subscribed(sub, st, c, p) == IF st[c] = "destroyed" THEN sub ELSE [sub EXCEPT ![c] = p]

\* The calls awaiting entersState(connection, Ready) on connection c.
Waiters(c) == {k \in Calls : call[k].pc = "ready_wait" /\ call[k].connection = c}

\* 'finish' of the write stream, then lines 56-100 or 56-69 and 129-146.
\* channel is FALSE for a call handed null as its voiceChannel: line 73 then
\* throws before joinVoiceChannel is entered, into the catch block of line 147.
WriteFinish(k) ==
  /\ call[k].pc = "write"
  /\ files' = files \cup {call[k].tempFile}
  /\ LET g == call[k].guild
         entry == connections[g]
     IN  IF Reusable(entry)
           THEN \* reuse the registered connection and player, play, return
                /\ call' = [call EXCEPT ![k].pc = "returned",
                                        ![k].connection = entry.connection,
                                        ![k].player = entry.player]
                /\ player' = Played(player, k, entry.player)
                /\ subscription' = Subscribed(subscription, connStatus,
                                              entry.connection, entry.player)
                /\ idleListeners' = [idleListeners EXCEPT ![entry.player] = @ \cup {k}]
                /\ UNCHANGED <<connStatus, reconnecting>>
           ELSE IF ~call[k].channel
           THEN \* voiceChannel.id throws: await unlink (line 150)
                /\ call' = [call EXCEPT ![k].pc = "unlink150"]
                /\ UNCHANGED <<connStatus, reconnecting, player, subscription,
                               idleListeners>>
           ELSE \* joinVoiceChannel, then await entersState(Ready, 30 s)
                /\ LET c == IF Tracked(g) # {} THEN CHOOSE x \in Tracked(g) : TRUE
                                               ELSE k
                   IN  /\ call' = [call EXCEPT ![k].pc = "ready_wait",
                                               ![k].connection = c,
                                               ![k].rank = Cardinality(Waiters(c))]
                       /\ connStatus' =
                            IF connStatus[c] \in {"none", "disconnected"}
                              THEN [connStatus EXCEPT ![c] = "signalling"]
                              ELSE connStatus
                       /\ reconnecting' =
                            IF connStatus[c] = "disconnected"
                              THEN [reconnecting EXCEPT ![c] = FALSE]
                              ELSE reconnecting
                /\ UNCHANGED <<player, subscription, idleListeners>>
  /\ UNCHANGED <<others, now, connections, disconnectTimers, armed, jobs>>

\* 'error' of the write stream: the await at lines 50-53 rejects into the
\* catch block, which awaits unlink (line 150).  The file may have been
\* created before the failure.
WriteError(k) ==
  /\ call[k].pc = "write"
  /\ \E created \in BOOLEAN :
       files' = IF created THEN files \cup {call[k].tempFile} ELSE files
  /\ call' = [call EXCEPT ![k].pc = "unlink150"]
  /\ UNCHANGED <<others, now, connections, disconnectTimers, armed, connStatus,
                 reconnecting, subscription, player, idleListeners, jobs>>

\* The call of W that began to await Ready last: its continuation runs last.
LastWaiter(W) == CHOOSE k \in W : \A j \in W : call[j].rank <= call[k].rank

\* The connection enters Ready.  Every playAudio awaiting it resumes in the
\* same turn of the event loop, in the order they began to wait, and runs lines 108-146 to its
\* return: createAudioPlayer, connections.set, play, subscribe, once(Idle).
\* Each set and each subscribe overwrites the one before it.
ConnReady(c) ==
  /\ \/ connStatus[c] = "signalling"
     \/ connStatus[c] = "ready" /\ Waiters(c) # {}
  /\ connStatus' = [connStatus EXCEPT ![c] = "ready"]
  /\ LET W == Waiters(c) IN
     IF W = {}
       THEN UNCHANGED <<call, player, idleListeners, connections, subscription>>
       ELSE /\ call' = [k \in Calls |->
                          IF k \in W THEN [call[k] EXCEPT !.pc = "returned", !.player = k]
                                     ELSE call[k]]
            /\ player' = [p \in Players |->
                            IF p \in W THEN [status |-> "playing", resource |-> p]
                                       ELSE player[p]]
            /\ idleListeners' = [p \in Players |->
                                   IF p \in W THEN {p} ELSE idleListeners[p]]
            /\ connections' = [connections EXCEPT ![ConnGuild(c)] =
                                 [connection |-> c, player |-> LastWaiter(W)]]
            /\ subscription' = [subscription EXCEPT ![c] = LastWaiter(W)]
  /\ UNCHANGED <<others, now, files, disconnectTimers, armed, reconnecting, jobs>>

\* entersState(Ready, 30 s) rejects, lines 101-105: destroy the connection and
\* await unlink; a destroy() that throws leaves the inner catch for the outer
\* one (line 147), which awaits its own unlink.
JoinTimeout(k) ==
  /\ call[k].pc = "ready_wait"
  /\ LET c == call[k].connection IN
     /\ connStatus[c] # "ready"
     /\ IF connStatus[c] = "destroyed"
          THEN /\ call' = [call EXCEPT ![k].pc = "unlink150"]
               /\ UNCHANGED <<connStatus, subscription>>
          ELSE /\ call' = [call EXCEPT ![k].pc = "unlink104"]
               /\ connStatus' = DestroyedStatus(connStatus, c)
               /\ subscription' = Unsubscribed(subscription, c)
  /\ UNCHANGED <<others, now, files, connections, disconnectTimers, armed, reconnecting,
                 player, idleListeners, jobs>>

\* The unlink of line 104 completes; line 105 throws into the outer catch,
\* which awaits unlink again (line 150).
Unlink104(k) ==
  /\ call[k].pc = "unlink104"
  /\ files' = Unlink(files, call[k].tempFile)
  /\ call' = [call EXCEPT ![k].pc = "unlink150"]
  /\ UNCHANGED <<others, now, connections, disconnectTimers, armed, connStatus,
                 reconnecting, subscription, player, idleListeners, jobs>>

\* The unlink of line 150 completes; line 157 throws to the caller.
Unlink150(k) ==
  /\ call[k].pc = "unlink150"
  /\ files' = Unlink(files, call[k].tempFile)
  /\ call' = [call EXCEPT ![k].pc = "threw"]
  /\ UNCHANGED <<others, now, connections, disconnectTimers, armed, connStatus,
                 reconnecting, subscription, player, idleListeners, jobs>>

----------------------------------------------------------------------------
\* The transport drops: the connection enters Disconnected and the handler of
\* lines 83-96 starts its 5 s wait for Signalling or Connecting.
TransportDrop(c) ==
  /\ connStatus[c] \in {"signalling", "ready"}
  /\ connStatus' = [connStatus EXCEPT ![c] = "disconnected"]
  /\ reconnecting' = [reconnecting EXCEPT ![c] = TRUE]
  /\ UNCHANGED <<others, now, files, connections, disconnectTimers, armed, call,
                 subscription, player, idleListeners, jobs>>

\* The connection re-enters Signalling within the wait: the race of lines
\* 86-89 resolves and the handler returns.
Reconnect(c) ==
  /\ connStatus[c] = "disconnected"
  /\ connStatus' = [connStatus EXCEPT ![c] = "signalling"]
  /\ reconnecting' = [reconnecting EXCEPT ![c] = FALSE]
  /\ UNCHANGED <<others, now, files, connections, disconnectTimers, armed, call,
                 subscription, player, idleListeners, jobs>>

\* The timed-out wait as it would be if the guild's entry were not deleted.
ReconnectFailKeepsEntry(c) ==
  /\ reconnecting[c]
  /\ connStatus[c] \in {"disconnected", "destroyed"}
  /\ reconnecting' = [reconnecting EXCEPT ![c] = FALSE]
  /\ IF connStatus[c] = "destroyed"
       THEN UNCHANGED <<connStatus, subscription>>
       ELSE /\ connStatus' = DestroyedStatus(connStatus, c)
            /\ subscription' = Unsubscribed(subscription, c)
  /\ UNCHANGED <<others, now, files, connections, disconnectTimers, armed, call, player,
                 idleListeners, jobs>>

\* The timed-out wait as it would be if destroy() on a Destroyed connection
\* returned instead of throwing: the delete of line 94 is always reached.
ReconnectFailAlwaysDeletes(c) ==
  /\ reconnecting[c]
  /\ connStatus[c] \in {"disconnected", "destroyed"}
  /\ reconnecting' = [reconnecting EXCEPT ![c] = FALSE]
  /\ connStatus' = DestroyedStatus(connStatus, c)
  /\ subscription' = Unsubscribed(subscription, c)
  /\ connections' = [connections EXCEPT ![ConnGuild(c)] = NoEntry]
  /\ UNCHANGED <<others, now, files, disconnectTimers, armed, call, player,
                 idleListeners, jobs>>

\* The wait times out, lines 91-95: destroy the connection, delete the
\* guild's entry.  On a connection destroyed meanwhile destroy() throws and
\* the delete is not reached.
ReconnectFail(c) ==
  /\ reconnecting[c]
  /\ connStatus[c] \in {"disconnected", "destroyed"}
  /\ reconnecting' = [reconnecting EXCEPT ![c] = FALSE]
  /\ IF connStatus[c] = "destroyed"
       THEN UNCHANGED <<connStatus, subscription, connections>>
       ELSE /\ connStatus' = DestroyedStatus(connStatus, c)
            /\ subscription' = Unsubscribed(subscription, c)
            /\ connections' = [connections EXCEPT ![ConnGuild(c)] = NoEntry]
  /\ UNCHANGED <<others, now, files, disconnectTimers, armed, call, player,
                 idleListeners, jobs>>

----------------------------------------------------------------------------
\* A player streams while a Ready connection is subscribed to it.
Streaming(p) ==
  /\ player[p].status = "playing"
  /\ \E c \in Conns : subscription[c] = p /\ connStatus[c] = "ready"

\* The Idle event as it would be if no once(Idle) listener were registered.
IdleRunsNone(p, js) == js

\* The Idle event: every once(Idle) listener of the player (lines 137-141)
\* starts and awaits its unlink.
IdleRuns(p, js) == [k \in Calls |-> IF k \in idleListeners[p] THEN js[k] + 1 ELSE js[k]]

\* The resource is exhausted: the player turns Idle.
PlayerFinish(p) ==
  /\ Streaming(p)
  /\ player' = [player EXCEPT ![p] = [status |-> "idle", resource |-> 0]]
  /\ jobs' = IdleRuns(p, jobs)
  /\ idleListeners' = [idleListeners EXCEPT ![p] = {}]
  /\ UNCHANGED <<others, now, files, connections, disconnectTimers, armed, call,
                 connStatus, reconnecting, subscription>>

\* The stream fails: the 'error' handler of lines 112-122 (registered by the
\* call that created the player, on that call's tempFile) starts and awaits
\* its unlink, then the player turns Idle.
PlayerError(p) ==
  /\ Streaming(p)
  /\ player' = [player EXCEPT ![p] = [status |-> "idle", resource |-> 0]]
  /\ jobs' = IdleRuns(p, [jobs EXCEPT ![p] = @ + 1])
  /\ idleListeners' = [idleListeners EXCEPT ![p] = {}]
  /\ UNCHANGED <<others, now, files, connections, disconnectTimers, armed, call,
                 connStatus, reconnecting, subscription>>

\* An Idle or error handler of call k resumes after its unlink (lines 120-121
\* and 139-140): the file is gone, scheduleDisconnect(guildId).
HandlerResume(k) ==
  /\ jobs[k] > 0
  /\ jobs' = [jobs EXCEPT ![k] = @ - 1]
  /\ files' = Unlink(files, call[k].tempFile)
  /\ LET r == ScheduleDisconnect(call[k].guild, disconnectTimers, armed) IN
       /\ disconnectTimers' = r.disconnectTimers
       /\ armed' = r.armed
  /\ UNCHANGED <<others, now, connections, call, connStatus, reconnecting, subscription,
                 player, idleListeners>>

\* The timer callback as it would be if it destroyed the connection and left
\* the guild's entry in the map.
TimerFireKeepsEntry(g) ==
  \E t \in armed :
    /\ t.guild = g
    /\ now >= t.due
    /\ armed' = armed \ {t}
    /\ LET entry == connections[g] IN
        IF entry # NoEntry /\ connStatus[entry.connection] # "destroyed"
          THEN /\ connStatus' = DestroyedStatus(connStatus, entry.connection)
               /\ subscription' = Unsubscribed(subscription, entry.connection)
               /\ disconnectTimers' = [disconnectTimers EXCEPT ![g] = NoTimer]
               /\ UNCHANGED connections
          ELSE UNCHANGED <<connStatus, subscription, connections, disconnectTimers>>
    /\ UNCHANGED <<others, now, files, call, reconnecting, player, idleListeners, jobs>>

\* The idle timer of guild g fires: the callback of lines 196-206.
TimerFire(g) ==
  \E t \in armed :
    /\ t.guild = g
    /\ now >= t.due
    /\ armed' = armed \ {t}
    /\ LET entry == connections[g] IN
        IF entry # NoEntry /\ connStatus[entry.connection] # "destroyed"
          THEN /\ connStatus' = DestroyedStatus(connStatus, entry.connection)
               /\ subscription' = Unsubscribed(subscription, entry.connection)
               /\ connections' = [connections EXCEPT ![g] = NoEntry]
               /\ disconnectTimers' = [disconnectTimers EXCEPT ![g] = NoTimer]
          ELSE UNCHANGED <<connStatus, subscription, connections, disconnectTimers>>
    /\ UNCHANGED <<others, now, files, call, reconnecting, player, idleListeners, jobs>>

\* The playSound invocations as a /stop of guild g would leave them if it
\* aborted those of the guild that are fetching their audio.
StoppedAborting(rq, g) ==
  [i \in Reqs |-> IF rq[i].guild = g /\ rq[i].pc \in {"lookup", "download"}
                    THEN [rq[i] EXCEPT !.stopped = TRUE, !.pc = "done", !.result = "false"]
                    ELSE rq[i]]

\* The playSound invocations as a /stop of guild g leaves them: StopCommand
\* holds no reference to them; those of the guild that are fetching their audio
\* are marked as having seen a stop.
Stopped(rq, g) ==
  [i \in Reqs |-> IF rq[i].guild = g /\ rq[i].pc \in {"lookup", "download"}
                    THEN [rq[i] EXCEPT !.stopped = TRUE]
                    ELSE rq[i]]

\* StopCommand.execute, line 30: voiceService.disconnect(interaction.guild.id).
Disconnect(g) ==
  LET r == DisconnectResult(g) IN
    /\ connections' = r.connections
    /\ disconnectTimers' = r.disconnectTimers
    /\ armed' = r.armed
    /\ connStatus' = r.connStatus
    /\ subscription' = r.subscription
    /\ req' = Stopped(req, g)
    /\ UNCHANGED <<connected, store, got, last, written, cacheService, sounds, cmd>>
    /\ UNCHANGED <<now, files, call, reconnecting, player, idleListeners, jobs>>

\* The clock advances.
Tick ==
  /\ now < MaxTime
  /\ now' = now + 1
  /\ UNCHANGED <<others, files, connections, disconnectTimers, armed, call, connStatus,
                 reconnecting, subscription, player, idleListeners, jobs>>

----------------------------------------------------------------------------
Next ==
  \/ \E g \in Guilds : PlayAudio(g)
  \/ \E k \in Calls : WriteFinish(k)
  \/ \E k \in Calls : WriteError(k)
  \/ \E c \in Conns : ConnReady(c)
  \/ \E k \in Calls : JoinTimeout(k)
  \/ \E k \in Calls : Unlink104(k)
  \/ \E k \in Calls : Unlink150(k)
  \/ \E c \in Conns : TransportDrop(c)
  \/ \E c \in Conns : Reconnect(c)
  \/ \E c \in Conns : ReconnectFail(c)
  \/ \E p \in Players : PlayerFinish(p)
  \/ \E p \in Players : PlayerError(p)
  \/ \E k \in Calls : HandlerResume(k)
  \/ \E g \in Guilds : TimerFire(g)
  \/ \E g \in Guilds : Disconnect(g)
  \/ Tick

Spec == Init /\ [][Next]_vars

\* The scheduling the event loop guarantees: a pending I/O completion, timer
\* or player event is eventually delivered.  New play requests, /stop and
\* transport drops are up to the users and the network and carry no fairness;
\* a join that does not turn Ready ends by its timeout.
FairSpec ==
  /\ Spec
  /\ \A k \in Calls : WF_vars(WriteFinish(k) \/ WriteError(k))
  /\ \A k \in Calls : WF_vars(JoinTimeout(k))
  /\ \A k \in Calls : WF_vars(Unlink104(k))
  /\ \A k \in Calls : WF_vars(Unlink150(k))
  /\ \A k \in Calls : WF_vars(HandlerResume(k))
  /\ \A c \in Conns : WF_vars(Reconnect(c) \/ ReconnectFail(c))
  /\ \A p \in Players : WF_vars(PlayerFinish(p) \/ PlayerError(p))
  /\ \A g \in Guilds : WF_vars(TimerFire(g))
  /\ WF_vars(Tick)

----------------------------------------------------------------------------
\* CacheService (src/src/database/CacheService.js) over Redis.

\* audioBuffer.toString('base64'), line 111: three bytes make four symbols,
\* a last group of one or two bytes is padded with '='.
RECURSIVE B64Encode(_)
B64Encode(b) ==
  IF Len(b) = 0 THEN <<>>
  ELSE IF Len(b) = 1 THEN <<b[1] \div 4, (b[1] % 4) * 16, Pad, Pad>>
  ELSE IF Len(b) = 2
    THEN <<b[1] \div 4, (b[1] % 4) * 16 + b[2] \div 16, (b[2] % 16) * 4, Pad>>
    ELSE <<b[1] \div 4, (b[1] % 4) * 16 + b[2] \div 16,
           (b[2] % 16) * 4 + b[3] \div 64, b[3] % 64>>
         \o B64Encode(SubSeq(b, 4, Len(b)))

\* The bytes of a run of base64 symbols: four symbols make three bytes, a
\* last group of two or three makes one or two.
RECURSIVE B64Bytes(_)
B64Bytes(s) ==
  IF Len(s) < 2 THEN <<>>
  ELSE IF Len(s) = 2 THEN <<s[1] * 4 + s[2] \div 16>>
  ELSE IF Len(s) = 3
    THEN <<s[1] * 4 + s[2] \div 16, (s[2] % 16) * 16 + s[3] \div 4>>
    ELSE <<s[1] * 4 + s[2] \div 16, (s[2] % 16) * 16 + s[3] \div 4,
           (s[3] % 4) * 64 + s[4]>>
         \o B64Bytes(SubSeq(s, 5, Len(s)))

\* Buffer.from(cached, 'base64'), line 86: padding carries no bytes.
B64Decode(s) == B64Bytes(SelectSeq(s, LAMBDA x : x # Pad))

\* if (cached), line 84: neither null nor the empty string.
Truthy(v) == v.ttl > 0 /\ v.data # <<>>

\* getAudio(soundUrl), lines 73-95, on keyspace st: what it returns.
GetAudioResult(st, u) ==
  IF ~connected THEN Null
  ELSE IF Truthy(st[u]) THEN [hit |-> TRUE, bytes |-> B64Decode(st[u].data)]
  ELSE Null

\* setAudio(soundUrl, audioBuffer, ttl), lines 103-126: the keyspace it leaves.
SetAudioStore(st, u, b, ttl) ==
  IF ~connected THEN st
  ELSE [st EXCEPT ![u] = [data |-> B64Encode(b), ttl |-> ttl]]

\* clearAudio as it would be if client.del were left out.
ClearAudioSkipped(st, u) == st

\* clearAudio(soundUrl), lines 132-144: the keyspace it leaves.
ClearAudioStore(st, u) ==
  IF ~connected THEN st ELSE [st EXCEPT ![u] = NoValue]

\* connect(), lines 18-46: the client reports 'ready'.
CacheConnect ==
  /\ ~connected
  /\ connected' = TRUE
  /\ UNCHANGED <<vars, store, got, last, written, cacheService, req, sounds, cmd>>

\* disconnect(), lines 51-57.  (A Redis that goes down leaves connected as it
\* is: the 'error' listener only logs; the operations then reject.)
CacheDown ==
  /\ connected
  /\ connected' = FALSE
  /\ UNCHANGED <<vars, store, got, last, written, cacheService, req, sounds, cmd>>

\* The try/catch of getAudio (78-94), setAudio (109-125) and clearAudio
\* (138-143) as it would be without the catch block.
Propagated(ok) == IF ok THEN "returned" ELSE "threw"

\* The try/catch of getAudio (78-94), setAudio (109-125) and clearAudio
\* (138-143): a rejection of the Redis command is caught, logged, and the
\* method returns.
Swallowed(ok) == "returned"

\* The record of a call: the guard on this.connected returns before Redis is
\* asked; otherwise the command is served (ok) or rejects.
Called(op, ok) ==
  [op |-> op, conn |-> connected, failed |-> connected /\ ~ok,
   end |-> IF ~connected THEN "returned" ELSE Swallowed(ok)]

\* The ttl parameter of setAudio with its default (line 103).
TtlOrDefault(ttl) == IF ttl = NoTtl THEN DefaultTtl ELSE ttl

\* Redis served the SET of a setAudio(u, b, ttl): the bytes and the ttl
\* argument of the call, and the time since then.
Recorded(w, u, b, ttl) ==
  [w EXCEPT ![u] = [set |-> TRUE, arg |-> ttl, age |-> 0, bytes |-> b]]

\* getAudio(u); a client.get that rejects is caught and gives null.
GetAudio(u) ==
  /\ \E ok \in BOOLEAN :
       /\ got' = IF ok THEN GetAudioResult(store, u) ELSE Null
       /\ last' = Called("get", ok)
  /\ UNCHANGED <<vars, connected, store, written, cacheService, req, sounds, cmd>>

\* setAudio(u, b, ttl); a client.set that rejects is caught and stores nothing.
SetAudio(u, b, ttl) ==
  /\ \E ok \in BOOLEAN :
       /\ store' = IF ok THEN SetAudioStore(store, u, b, TtlOrDefault(ttl)) ELSE store
       /\ written' = IF ok /\ connected
                       THEN Recorded(written, u, b, ttl) ELSE written
       /\ last' = Called("set", ok)
  /\ UNCHANGED <<vars, connected, got, cacheService, req, sounds, cmd>>

\* clearAudio(u); a client.del that rejects is caught.
ClearAudio(u) ==
  /\ \E ok \in BOOLEAN :
       /\ store' = IF ok THEN ClearAudioStore(store, u) ELSE store
       /\ written' = IF ok /\ connected
                       THEN [written EXCEPT ![u] = NotWritten] ELSE written
       /\ last' = Called("clear", ok)
  /\ UNCHANGED <<vars, connected, got, cacheService, req, sounds, cmd>>

\* Redis' clock advances: every key is one step closer to its expiry (EX,
\* line 114) and a key that reaches it is removed.
CacheTick ==
  /\ \E u \in Urls : store[u].ttl > 0
  /\ store' = [u \in Urls |-> IF store[u].ttl > 1
                                THEN [store[u] EXCEPT !.ttl = @ - 1]
                                ELSE NoValue]
  /\ written' = [u \in Urls |-> IF store[u].ttl > 0
                                  THEN [written[u] EXCEPT !.age = @ + 1]
                                  ELSE written[u]]
  /\ UNCHANGED <<vars, connected, got, last, cacheService, req, sounds, cmd>>

CacheNext ==
  \/ CacheConnect
  \/ CacheDown
  \/ \E u \in Urls : GetAudio(u)
  \/ \E u \in Urls, b \in Payloads, ttl \in Ttls \cup {NoTtl} : SetAudio(u, b, ttl)
  \/ \E u \in Urls : ClearAudio(u)
  \/ CacheTick

\* A CacheService used on its own.
CacheSpec == Init /\ [][CacheNext]_allVars

----------------------------------------------------------------------------
\* AudioService (src/src/discord/services/AudioService.js): playSound.

\* The bytes scraperService.downloadSound(url) resolves with.
Body(u) == IF u = "u" THEN <<255>> ELSE <<0, 255>>

\* The two calling patterns of playSound (lines 55-83): with a sound id, or
\* with a voice channel and a sound.
Paths == {"id", "channel"}

\* Lines 56-79, calling pattern 1 only: validateVoiceAccess gave no channel,
\* or getSoundById gave no sound, and playSound returns false.
Rejected(path, channel, found) == path = "id" /\ ~(channel /\ found)

\* The outer catch of playSound as it would be if it threw the error on to the
\* caller.
OuterCatchRethrows(r) == [r EXCEPT !.pc = "done", !.result = "threw"]

\* The outer catch of playSound, lines 158-161: whatever was thrown inside
\* the function and not caught further in, an awaited interaction reply that
\* Discord rejects included, is logged and playSound returns false.
OuterCatch(r) == [r EXCEPT !.pc = "done", !.result = "false"]

\* playSound(interaction, ...) is called for guild g and sound URL u, lines
\* 51-90.  channel: the member's voice channel passes validateVoiceAccess
\* (pattern 1) or the caller hands in a channel rather than null (pattern 2);
\* found: the sound of pattern 1 exists (pattern 2 is handed the sound).
\* Without a cache service line 90 throws a TypeError, caught at line 108, and
\* playSound returns false; otherwise it awaits cacheService.getAudio.
PlaySound(g, u) ==
  \E i \in Reqs, path \in Paths, channel \in BOOLEAN, found \in BOOLEAN :
    /\ req[i].pc = "idle"
    /\ \A j \in Reqs : j < i => req[j].pc # "idle"
    /\ path = "channel" => found
    /\ LET r == [req[i] EXCEPT
                   !.guild = g, !.url = u,
                   !.channel = channel, !.found = found,
                   !.cold = (store[u] = NoValue),
                   !.after = {j \in Reqs : req[j].pc = "done"}]
       IN  req' = [req EXCEPT ![i] =
                     IF ~Rejected(path, channel, found) /\ cacheService = "present"
                       THEN [r EXCEPT !.pc = "lookup"]
                       ELSE [r EXCEPT !.pc = "done", !.result = "false"]]
    /\ UNCHANGED <<vars, connected, store, got, last, written, cacheService, sounds, cmd>>

\* voiceService.playAudio(voiceChannel, ...) as playSound calls it for request
\* i, lines 120-126: the channel is the one the request holds.
StartedFor(i) == [StartedCall(req[i].guild) EXCEPT !.channel = req[i].channel]

\* getAudio resolves, lines 90-101: with a buffer the request announces the
\* sound (line 116; reply: Discord accepts the editReply) and calls
\* voiceService.playAudio (lines 120-126); with null it calls
\* scraperService.downloadSound.  A client.get that rejects resolves null.
Lookup(i) ==
  /\ req[i].pc = "lookup"
  /\ \E ok \in BOOLEAN, reply \in BOOLEAN :
       LET r == IF ok THEN GetAudioResult(store, req[i].url) ELSE Null
           hit == [req[i] EXCEPT !.lookup = "hit", !.source = "cache",
                                 !.bytes = r.bytes]
       IN
       IF r.hit /\ ~reply
         THEN /\ req' = [req EXCEPT ![i] = OuterCatch(hit)]
              /\ UNCHANGED call
       ELSE IF r.hit
         THEN /\ req' = [req EXCEPT ![i] = [hit EXCEPT !.pc = "play"]]
              /\ call' = [call EXCEPT ![i] = StartedFor(i)]
         ELSE /\ req' = [req EXCEPT ![i].pc = "download", ![i].invoked = TRUE,
                                    ![i].lookup = IF ~connected THEN "down"
                                                  ELSE IF ok THEN "miss" ELSE "error"]
              /\ UNCHANGED call
  /\ UNCHANGED <<now, files, connections, disconnectTimers, armed, connStatus,
                 reconnecting, subscription, player, idleListeners, jobs>>
  /\ UNCHANGED <<connected, store, got, last, written, cacheService, sounds, cmd>>

\* downloadSound resolves, lines 101-107 and 116-126: announce the sound
\* (reply: Discord accepts the editReply of line 116) and call
\* voiceService.playAudio with the downloaded bytes.
DownloadDone(i) ==
  /\ req[i].pc = "download"
  /\ \E reply \in BOOLEAN :
       LET r == [req[i] EXCEPT !.source = "network", !.bytes = Body(req[i].url)] IN
       IF reply
         THEN /\ req' = [req EXCEPT ![i] = [r EXCEPT !.pc = "play"]]
              /\ call' = [call EXCEPT ![i] = StartedFor(i)]
         ELSE /\ req' = [req EXCEPT ![i] = OuterCatch(r)]
              /\ UNCHANGED call
  /\ UNCHANGED <<now, files, connections, disconnectTimers, armed, connStatus,
                 reconnecting, subscription, player, idleListeners, jobs>>
  /\ UNCHANGED <<connected, store, got, last, written, cacheService, sounds, cmd>>

\* Lines 108-114 as they would be if the catch block did not return: the
\* request goes on to playAudio with the buffer it has.
DownloadFailPlays(i) ==
  /\ req[i].pc = "download"
  /\ req' = [req EXCEPT ![i].pc = "play", ![i].source = "failed"]
  /\ call' = [call EXCEPT ![i] = StartedFor(i)]
  /\ UNCHANGED <<now, files, connections, disconnectTimers, armed, connStatus,
                 reconnecting, subscription, player, idleListeners, jobs>>
  /\ UNCHANGED <<connected, store, got, last, written, cacheService, sounds, cmd>>

\* downloadSound rejects, lines 108-114: reply with the error, return false;
\* an editReply that rejects there leaves for the outer catch.
DownloadFail(i) ==
  /\ req[i].pc = "download"
  /\ \E reply \in BOOLEAN :
       LET r == [req[i] EXCEPT !.source = "failed"] IN
       req' = [req EXCEPT ![i] =
                 IF reply THEN [r EXCEPT !.pc = "done", !.result = "false"]
                          ELSE OuterCatch(r)]
  /\ UNCHANGED <<vars, connected, store, got, last, written, cacheService, sounds, cmd>>

\* The settling of playAudio as it would be if line 130 did not test
\* fromCache and if the catch block of line 142 cached the bytes too.
SettleCachesAlways(i) ==
  /\ req[i].pc = "play"
  /\ call[i].pc \in {"returned", "threw"}
  /\ req' = [req EXCEPT ![i] =
       [@ EXCEPT !.pc = "done",
                 !.result = IF call[i].pc = "returned" THEN "true" ELSE "false",
                 !.put = IF connected THEN "pending" ELSE "down"]]
  /\ UNCHANGED <<vars, connected, store, got, last, written, cacheService, sounds, cmd>>

\* The awaited playAudio settles, lines 119-157.  Returned: if the bytes came
\* from the network call setAudio without awaiting it, return true; a cache
\* that is not connected returns inside that call (CacheService.js 104-107),
\* otherwise the SET is on its way.  Thrown: reply, return false; an
\* editReply that rejects there (line 155) leaves for the outer catch.
Settle(i) ==
  /\ req[i].pc = "play"
  /\ call[i].pc \in {"returned", "threw"}
  /\ \E reply \in BOOLEAN :
      req' = [req EXCEPT ![i] =
       IF call[i].pc = "returned"
         THEN IF req[i].source = "network"
                THEN [@ EXCEPT !.pc = "done", !.result = "true",
                               !.put = IF connected THEN "pending" ELSE "down"]
                ELSE [@ EXCEPT !.pc = "done", !.result = "true"]
         ELSE IF reply THEN [@ EXCEPT !.pc = "done", !.result = "false"]
         ELSE OuterCatch(@)]
  /\ UNCHANGED <<vars, connected, store, got, last, written, cacheService, sounds, cmd>>

\* The rejection handler of the unawaited setAudio as it would be if it
\* failed the request.
PutFailsRequest(r, outcome) ==
  [r EXCEPT !.put = outcome,
            !.result = IF outcome = "error" THEN "false" ELSE @]

\* The unawaited setAudio of line 131 has settled: playSound has returned
\* already, and the handler of lines 131-133 only logs.
PutSettled(r, outcome) == [r EXCEPT !.put = outcome]

\* Redis answers the SET of a request's setAudio, served or rejected (caught
\* inside setAudio, CacheService.js 123-125).  A SET that hangs is this action
\* never taken.
PutDone(i) ==
  /\ req[i].put = "pending"
  /\ \E ok \in BOOLEAN :
       /\ store' = IF ok THEN SetAudioStore(store, req[i].url, req[i].bytes, DefaultTtl)
                         ELSE store
       /\ written' = IF ok /\ connected
                       THEN Recorded(written, req[i].url, req[i].bytes, NoTtl)
                       ELSE written
       /\ req' = [req EXCEPT ![i] = PutSettled(@, IF ok THEN "stored" ELSE "error")]
  /\ UNCHANGED <<vars, connected, got, last, cacheService, sounds, cmd>>

\* The requests modelled: one guild's members asking for one sound, within a
\* span of time shorter than the idle delay.
ReqGuilds == {"A"}
ReqUrls == {"u"}
AudioMaxTime == 1

AudioTick ==
  /\ now < AudioMaxTime
  /\ Tick

\* playSound over the VoiceService.  playAudio is called by playSound only;
\* the cache is connected at some point or never; the voice side runs without
\* transport drops and stream errors, and no idle timer falls due.
AudioNext ==
  \/ \E g \in ReqGuilds, u \in ReqUrls : PlaySound(g, u)
  \/ \E i \in Reqs : Lookup(i)
  \/ \E i \in Reqs : DownloadDone(i)
  \/ \E i \in Reqs : DownloadFail(i)
  \/ \E i \in Reqs : Settle(i)
  \/ \E i \in Reqs : PutDone(i)
  \/ CacheConnect
  \/ \E k \in Calls : WriteFinish(k)
  \/ \E k \in Calls : WriteError(k)
  \/ \E c \in Conns : ConnReady(c)
  \/ \E k \in Calls : JoinTimeout(k)
  \/ \E k \in Calls : Unlink104(k)
  \/ \E k \in Calls : Unlink150(k)
  \/ \E p \in Players : PlayerFinish(p)
  \/ \E k \in Calls : HandlerResume(k)
  \/ \E g \in Guilds : Disconnect(g)
  \/ AudioTick

\* An AudioService with or without a cache service, over the VoiceService.
AudioInit == VoiceInit /\ CacheInit /\ RepoIdle /\ cacheService \in {"none", "present"}
AudioSpec == AudioInit /\ [][AudioNext]_allVars

----------------------------------------------------------------------------
\* SoundRepository (src/src/database/SoundRepository.js) under the /play
\* command (PlayCommand.execute, src/unnamed/part_013).  The table is kept as
\* the sequence of its rows in order of created_at (DEFAULT CURRENT_TIMESTAMP,
\* part_007 line 8): an INSERT appends.

Row(g, u) == <<g, u>>
Rows(t) == {t[n] : n \in 1..Len(t)}

\* isDuplicate, lines 78-93: SELECT COUNT(*) ... WHERE guild_id AND sound_url.
IsDuplicate(t, g, u) == Row(g, u) \in Rows(t)

\* getCount, lines 100-114: SELECT COUNT(*) ... WHERE guild_id.
GetCount(t, g) == Cardinality({n \in 1..Len(t) : t[n][1] = g})

\* The row removeOldest deletes, lines 121-144: the first of the guild in
\* order of created_at, none if the guild has no row.
Oldest(t, g) ==
  IF GetCount(t, g) = 0 THEN NoRow
  ELSE t[CHOOSE n \in 1..Len(t) :
           /\ t[n][1] = g
           /\ \A m \in 1..Len(t) : t[m][1] = g => n <= m]

\* removeOldest: the table without that row.
RemoveOldest(t, g) == SelectSeq(t, LAMBDA r : r # Oldest(t, g))

\* The INSERT of addSound, lines 33-38, when the unique constraint
\* unique_guild_sound (part_007 line 11) lets it pass.
Inserted(t, g, u) == Append(t, Row(g, u))

\* execute is called for guild g with a page that names sound URL u, lines
\* 34-95.  An invalid URL, a member outside a voice channel, missing
\* permissions or a failed scrape end the command; otherwise it awaits
\* soundRepository.isDuplicate.
Execute(g, u) ==
  \E k \in Cmds, valid \in BOOLEAN :
    /\ cmd[k].pc = "idle"
    /\ \A j \in Cmds : j < k => cmd[j].pc # "idle"
    /\ cmd' = [cmd EXCEPT ![k] = [@ EXCEPT !.guild = g, !.url = u, !.valid = valid,
                                           !.pc = IF valid THEN "isDuplicate" ELSE "done"]]
    /\ UNCHANGED <<vars, connected, store, got, last, written, cacheService, req, sounds>>

\* The isDuplicate of line 91 settles.  It is outside every inner try: a
\* rejection goes to the catch of line 175, which replies with the error.
CheckDuplicate(k) ==
  /\ cmd[k].pc = "isDuplicate"
  /\ \E ok \in BOOLEAN :
       cmd' = [cmd EXCEPT ![k] =
                 IF ok THEN [@ EXCEPT !.pc = "download",
                                      !.isDuplicate = IsDuplicate(sounds, cmd[k].guild, cmd[k].url)]
                       ELSE [@ EXCEPT !.pc = "done", !.failed = TRUE]]
  /\ UNCHANGED <<vars, connected, store, got, last, written, cacheService, req, sounds>>

\* Lines 136-147: announce the sound and call voiceService.playAudio.
Playing(c) == [c EXCEPT !.pc = "play", !.played = TRUE]

\* addSound rejected (it rethrows at lines 42-45): the catch of lines 135-138
\* logs and the command goes on to play.
AddThrew(c) == Playing([c EXCEPT !.add = "threw", !.failed = TRUE])

\* downloadSound resolves, lines 111-125: a command that was told the sound
\* is a duplicate goes on to play; another calls addSound, which awaits its
\* own isDuplicate (SoundRepository.js line 20).
Downloaded(k) ==
  /\ cmd[k].pc = "download"
  /\ IF cmd[k].isDuplicate
       THEN /\ cmd' = [cmd EXCEPT ![k] = Playing([@ EXCEPT !.download = "ok"])]
            /\ call' = [call EXCEPT ![k] = StartedCall(cmd[k].guild)]
       ELSE /\ cmd' = [cmd EXCEPT ![k] = [@ EXCEPT !.download = "ok", !.pc = "add_isDuplicate"]]
            /\ UNCHANGED call
  /\ UNCHANGED <<now, files, connections, disconnectTimers, armed, connStatus,
                 reconnecting, subscription, player, idleListeners, jobs>>
  /\ UNCHANGED <<connected, store, got, last, written, cacheService, req, sounds>>

\* downloadSound rejects, lines 118-123: reply and return.
DownloadFailed(k) ==
  /\ cmd[k].pc = "download"
  /\ cmd' = [cmd EXCEPT ![k] = [@ EXCEPT !.download = "failed", !.pc = "done"]]
  /\ UNCHANGED <<vars, connected, store, got, last, written, cacheService, req, sounds>>

\* addSound, lines 20-24: its isDuplicate settles; on a duplicate it returns
\* null and the command plays.
AddIsDuplicate(k) ==
  /\ cmd[k].pc = "add_isDuplicate"
  /\ \E ok \in BOOLEAN :
       LET dup == IsDuplicate(sounds, cmd[k].guild, cmd[k].url) IN
       /\ cmd' = [cmd EXCEPT ![k] =
                    IF ~ok THEN AddThrew(@)
                    ELSE IF dup THEN Playing([@ EXCEPT !.add = "null", !.held = TRUE])
                    ELSE [@ EXCEPT !.pc = "add_getCount"]]
       /\ call' = IF ok /\ ~dup THEN call
                  ELSE [call EXCEPT ![k] = StartedCall(cmd[k].guild)]
  /\ UNCHANGED <<now, files, connections, disconnectTimers, armed, connStatus,
                 reconnecting, subscription, player, idleListeners, jobs>>
  /\ UNCHANGED <<connected, store, got, last, written, cacheService, req, sounds>>

\* addSound, lines 27-30: getCount settles; at the maximum it awaits
\* removeOldest, below it the INSERT.
AddGetCount(k) ==
  /\ cmd[k].pc = "add_getCount"
  /\ \E ok \in BOOLEAN :
       /\ cmd' = [cmd EXCEPT ![k] =
                    IF ~ok THEN AddThrew(@)
                    ELSE IF GetCount(sounds, cmd[k].guild) >= MaxSoundsPerGuild
                           THEN [@ EXCEPT !.pc = "add_removeOldest"]
                           ELSE [@ EXCEPT !.pc = "add_insert"]]
       /\ call' = IF ok THEN call ELSE [call EXCEPT ![k] = StartedCall(cmd[k].guild)]
  /\ UNCHANGED <<now, files, connections, disconnectTimers, armed, connStatus,
                 reconnecting, subscription, player, idleListeners, jobs>>
  /\ UNCHANGED <<connected, store, got, last, written, cacheService, req, sounds>>

\* addSound, line 29: the DELETE of removeOldest settles.
AddRemoveOldest(k) ==
  /\ cmd[k].pc = "add_removeOldest"
  /\ \E ok \in BOOLEAN :
       /\ cmd' = [cmd EXCEPT ![k] =
                    IF ~ok THEN AddThrew(@)
                    ELSE [@ EXCEPT !.pc = "add_insert",
                                   !.evicted = Oldest(sounds, cmd[k].guild)]]
       /\ sounds' = IF ok THEN RemoveOldest(sounds, cmd[k].guild) ELSE sounds
       /\ call' = IF ok THEN call ELSE [call EXCEPT ![k] = StartedCall(cmd[k].guild)]
  /\ UNCHANGED <<now, files, connections, disconnectTimers, armed, connStatus,
                 reconnecting, subscription, player, idleListeners, jobs>>
  /\ UNCHANGED <<connected, store, got, last, written, cacheService, req>>

\* addSound, lines 33-41: the INSERT settles.  A row of the same guild and URL
\* makes it fail on the unique constraint, like any other rejection; else the
\* row is added and returned.  Either way the command goes on to play.
AddInsert(k) ==
  /\ cmd[k].pc = "add_insert"
  /\ \E ok \in BOOLEAN :
       LET dup == IsDuplicate(sounds, cmd[k].guild, cmd[k].url) IN
       /\ cmd' = [cmd EXCEPT ![k] =
                    IF ~ok THEN AddThrew(@)
                    ELSE IF dup THEN AddThrew([@ EXCEPT !.conflict = TRUE, !.held = TRUE])
                    ELSE Playing([@ EXCEPT !.add = "record"])]
       /\ sounds' = IF ok /\ ~dup THEN Inserted(sounds, cmd[k].guild, cmd[k].url)
                                  ELSE sounds
  /\ call' = [call EXCEPT ![k] = StartedCall(cmd[k].guild)]
  /\ UNCHANGED <<now, files, connections, disconnectTimers, armed, connStatus,
                 reconnecting, subscription, player, idleListeners, jobs>>
  /\ UNCHANGED <<connected, store, got, last, written, cacheService, req>>

\* The tables a bot may find at start: guild A holds up to the maximum, in
\* any order of age, and guild B may hold one row older than all of A's.
TablesOfA ==
  {<<>>} \cup {<<Row("A", u)>> : u \in RepoUrls}
         \cup ({<<Row("A", u), Row("A", v)>> : u, v \in RepoUrls}
                 \ {<<Row("A", u), Row("A", u)>> : u \in RepoUrls})
InitialTables == TablesOfA \cup {<<Row("B", "u")>> \o t : t \in TablesOfA}

RepoInit ==
  /\ VoiceInit /\ CacheInit /\ cacheService = "none"
  /\ sounds \in InitialTables
  /\ cmd = [k \in Cmds |-> NewCmd]

\* /play commands of one guild's members over the repository.  The playAudio
\* a command calls is started; how it goes on is the subject of Spec.
RepoNext ==
  \/ \E u \in RepoUrls : Execute("A", u)
  \/ \E k \in Cmds : CheckDuplicate(k)
  \/ \E k \in Cmds : Downloaded(k)
  \/ \E k \in Cmds : DownloadFailed(k)
  \/ \E k \in Cmds : AddIsDuplicate(k)
  \/ \E k \in Cmds : AddGetCount(k)
  \/ \E k \in Cmds : AddRemoveOldest(k)
  \/ \E k \in Cmds : AddInsert(k)

RepoSpec == RepoInit /\ [][RepoNext]_allVars

----------------------------------------------------------------------------
\* Names a temporary file can have.
FileNames == 0..MaxTime

\* Call k still has cleanup to run: it is between its write and its return or
\* throw, its once(Idle) listener is registered, or a handler of its closures
\* awaits unlink.
Alive(k) ==
  \/ call[k].pc \in {"write", "ready_wait", "unlink104", "unlink150"}
  \/ \E p \in Players : k \in idleListeners[p]
  \/ jobs[k] > 0

\* Call k has written its temporary file and none of its cleanup has started.
HoldsResource(k) ==
  \/ call[k].pc = "ready_wait"
  \/ call[k].pc = "returned" /\ \E p \in Players : k \in idleListeners[p]

\* C1: every temporary file a playAudio call created is eventually deleted,
\* whatever happens afterwards (finish, timeout, error, pre-emption, teardown
\* of the session while it plays).
C1_TempFileEventuallyDeleted ==
  \A f \in FileNames : (f \in files) ~> (f \notin files)

\* C2: the cleanup of one call never deletes the temporary resource of
\* another call: a call whose cleanup has not started still has its file.
C2_CleanupSparesOtherCalls ==
  \A k \in Calls : HoldsResource(k) => call[k].tempFile \in files

\* C3: no two playAudio calls use the same temporary resource while either
\* of them is alive.
C3_UniqueTempIdentity ==
  \A a, b \in Calls :
    (a # b /\ call[a].pc # "new" /\ call[b].pc # "new" /\ (Alive(a) \/ Alive(b)))
      => call[a].tempFile # call[b].tempFile

\* C4: when playAudio throws to its caller, the temporary file of that call
\* is not on disk.
C4_DeletedBeforeErrorPropagates ==
  [][\A k \in Calls :
       (call[k].pc # "threw" /\ call'[k].pc = "threw")
         => call[k].tempFile \notin files']_vars

\* A playAudio has failed after its connection was joined.
C4_Witness ==
  \E k \in Calls : call[k].pc = "threw" /\ call[k].connection # 0

\* The session registered for guild g is playing a resource.
PlaybackInProgress(g) ==
  /\ connections[g] # NoEntry
  /\ player[connections[g].player].status = "playing"

\* C5: a new playAudio cancels the pending idle teardown: no idle timer is
\* pending for a guild while a playback is in progress on its session.
C5_NoTimerWhilePlaying ==
  \A g \in Guilds : PlaybackInProgress(g) => ~ \E t \in armed : t.guild = g

\* C6: a firing idle timer tears a session down only if it is still idle:
\* never one whose player is Playing or whose connection is still joining.
C6_TimerTearsDownOnlyIdleSession ==
  [][\A g \in Guilds :
       (TimerFire(g) /\ connections[g] # NoEntry)
         => /\ ~ PlaybackInProgress(g)
            /\ connStatus[connections[g].connection] # "signalling"]_vars

\* C7: after disconnect(g) returns there is no idle-timer entry and no
\* pending timer for g and no session entry for g, and it returns whether a
\* session existed, also when it returns false.
C7_DisconnectLeavesNoTimerNoSession ==
  \A g \in Guilds :
    LET r == DisconnectResult(g) IN
      /\ r.disconnectTimers[g] = NoTimer
      /\ \A t \in r.armed : t.guild # g
      /\ r.connections[g] = NoEntry
      /\ (r.ret = "true") = (connections[g] # NoEntry)

\* C8: from any state of the guild's session, Connecting included, an
\* explicit disconnect() destroys the connection and leaves the guild Absent.
C8_DisconnectFromAnyState ==
  \A g \in Guilds :
    LET r == DisconnectResult(g) IN
      \A c \in Conns :
        (connStatus[c] # "none" /\ ConnGuild(c) = g) => r.connStatus[c] = "destroyed"

\* The players created for guild g whose connection is not destroyed.
LivePlayers(g) ==
  {p \in Players : /\ player[p].status # "none"
                   /\ call[p].guild = g
                   /\ connStatus[call[p].connection] # "destroyed"}

\* C9: at most one voice session, one connection and one player, per guild
\* at any time, also when playAudio calls of a guild overlap.
C9_OneSessionPerGuild ==
  \A g \in Guilds :
    /\ Cardinality(Tracked(g)) <= 1
    /\ Cardinality(LivePlayers(g)) <= 1

\* C10: a playAudio that finds the guild's connection registered and not
\* Destroyed uses that connection and that player and performs no join.
C10_SequentialCallsReuse ==
  [][\A k \in Calls :
       LET entry == connections[call[k].guild] IN
       (call[k].pc = "write" /\ call'[k].pc \notin {"write", "unlink150"}
          /\ entry # NoEntry /\ connStatus[entry.connection] # "destroyed")
         => /\ call'[k].pc = "returned"
            /\ call'[k].connection = entry.connection
            /\ call'[k].player = entry.player
            /\ connStatus' = connStatus
            /\ connections' = connections]_vars

\* A call has returned after playing on a player an earlier call created.
C10_Witness ==
  \E k \in Calls :
    /\ call[k].pc = "returned"
    /\ call[k].player \notin {0, k}
    /\ call[k].connection = call[call[k].player].connection

\* What guild g owns: its session entry, its idle timer (recorded and pending)
\* and the temporary files its calls hold.
GuildState(g) ==
  [entry   |-> connections[g],
   timer   |-> disconnectTimers[g],
   pending |-> {t \in armed : t.guild = g},
   temp    |-> {k \in Calls : /\ call[k].pc # "new"
                              /\ call[k].guild = g
                              /\ HoldsResource(k)
                              /\ call[k].tempFile \in files}]

\* A step of VoiceService taken for guild h: of one of its playAudio calls or
\* of their handlers, of its connection, of its players, of its idle timer or
\* of a disconnect.
GuildStep(h) ==
  \/ PlayAudio(h)
  \/ \E k \in Calls : /\ call[k].pc # "new"
                      /\ call[k].guild = h
                      /\ \/ WriteFinish(k)
                         \/ WriteError(k)
                         \/ JoinTimeout(k)
                         \/ Unlink104(k)
                         \/ Unlink150(k)
                         \/ HandlerResume(k)
  \/ \E c \in Conns : /\ connStatus[c] # "none"
                      /\ ConnGuild(c) = h
                      /\ \/ ConnReady(c)
                         \/ TransportDrop(c)
                         \/ Reconnect(c)
                         \/ ReconnectFail(c)
  \/ \E p \in Players : /\ player[p].status # "none"
                        /\ call[p].guild = h
                        /\ (PlayerFinish(p) \/ PlayerError(p))
  \/ TimerFire(h)
  \/ Disconnect(h)

\* C11: a step taken for one guild leaves every other guild's session entry,
\* idle timer and held temporary files as they were.
C11_GuildIsolation ==
  [][\A g, h \in Guilds : (g # h /\ GuildStep(h)) => GuildState(g)' = GuildState(g)]_vars

\* C12: a playAudio whose connection does not reach Ready within the join
\* timeout destroys the connection, deletes its temporary file and throws; its
\* steps register no session for the guild and arm no idle timer.
C12_JoinTimeoutCleansUp ==
  [][\A k \in Calls :
       (call[k].connection # 0 /\ (JoinTimeout(k) \/ Unlink104(k) \/ Unlink150(k))) =>
          /\ connections' = connections
          /\ disconnectTimers' = disconnectTimers
          /\ armed' = armed
          /\ connStatus'[call[k].connection] = "destroyed"
          /\ call'[k].pc = "threw" =>
               /\ call[k].tempFile \notin files'
               /\ connections'[call[k].guild].connection # call[k].connection]_vars

\* A call has thrown after a join timeout: its connection is destroyed, its
\* file is gone, its guild has no session and no timer.
C12_Witness ==
  \E k \in Calls :
    /\ call[k].pc = "threw"
    /\ call[k].connection # 0
    /\ connStatus[call[k].connection] = "destroyed"
    /\ call[k].tempFile \notin files
    /\ connections[call[k].guild] = NoEntry
    /\ disconnectTimers[call[k].guild] = NoTimer

\* C13: after the transport reported Disconnected, a re-entry into Signalling
\* within the wait leaves the session as it was (entry unchanged, connection
\* not destroyed); a wait that times out leaves the connection destroyed and
\* the guild's map without it.
C13_ReconnectOrTearDown ==
  [][\A c \in Conns :
       /\ Reconnect(c) => /\ connections' = connections
                          /\ connStatus'[c] \notin {"destroyed", "none"}
       /\ ReconnectFail(c) =>
            /\ connStatus'[c] = "destroyed"
            /\ connections'[ConnGuild(c)].connection # c
            /\ connStatus[c] = "disconnected" => connections'[ConnGuild(c)] = NoEntry]_vars

\* The Disconnected handler of a registered session's connection is waiting.
C13_Witness ==
  \E c \in Conns :
    /\ reconnecting[c]
    /\ connStatus[c] = "disconnected"
    /\ connections[ConnGuild(c)].connection = c

\* C14: when a player fails, a handler that deletes the temporary file of the
\* call whose resource was playing starts (whichever call created the player)
\* and the session stays registered; when such a handler resumes, the file is
\* gone and the guild's idle timer is armed, the entry still untouched.
C14_PlayerErrorCleansUp ==
  [][/\ \A p \in Players :
          PlayerError(p) => /\ jobs'[player[p].resource] > jobs[player[p].resource]
                            /\ connections' = connections
     /\ \A k \in Calls :
          HandlerResume(k) =>
            /\ call[k].tempFile \notin files'
            /\ disconnectTimers'[call[k].guild] = now + IdleDelay
            /\ [guild |-> call[k].guild, due |-> now + IdleDelay] \in armed'
            /\ connections' = connections]_vars

\* A player created by one call failed while it played the resource of a later
\* call: the creator's error handler, the creator's Idle listener and the later
\* call's Idle listener all await their unlink.
C14_Witness ==
  \E b \in Calls :
    /\ call[b].player \notin {0, b}
    /\ jobs[b] > 0
    /\ jobs[call[b].player] = 2

\* No further play request arrives for guild g: every request there will be
\* has been made and those of g have returned or thrown.
NoFurtherPlay(g) ==
  \A k \in Calls : /\ call[k].pc # "new"
                   /\ call[k].guild = g => call[k].pc \in {"returned", "threw"}

\* The playback of guild g's session has finished in time for the idle timer
\* to run within the clock's range.
PlaybackFinished(g) ==
  /\ connections[g] # NoEntry
  /\ player[connections[g].player].status = "idle"
  /\ now + IdleDelay <= MaxTime

\* Guild g's session is torn down: its connections are destroyed, it has no
\* entry and no timer, recorded or pending.
TornDown(g) ==
  /\ connections[g] = NoEntry
  /\ \A c \in Conns : ConnGuild(c) = g => connStatus[c] \in {"none", "destroyed"}
  /\ disconnectTimers[g] = NoTimer
  /\ \A t \in armed : t.guild # g

\* A timer of guild g is due beyond the clock's range.
BeyondClock(g) == \E t \in armed : t.guild = g /\ t.due > MaxTime

\* C15: once a playback has finished and no further play request arrives for
\* the guild, the session is eventually torn down: connection destroyed, entry
\* removed, no timer entry left for the guild.
C15_IdleSessionTornDown ==
  \A g \in Guilds :
    (PlaybackFinished(g) /\ NoFurtherPlay(g)) ~> (TornDown(g) \/ BeyondClock(g))

\* C16: each guild has at most one pending idle timer, and a pending timer is
\* the one recorded for the guild (the most recently armed).
C16_OnePendingTimer ==
  \A g \in Guilds :
    /\ Cardinality({t \in armed : t.guild = g}) <= 1
    /\ \A t \in armed : t.guild = g => disconnectTimers[g] = t.due

\* Two calls of one guild have both run their cleanup to the end, each ending
\* in scheduleDisconnect at a different time, and the guild's timer is pending.
C16_Witness ==
  \E a, b \in Calls :
    /\ a # b
    /\ call[a].guild = call[b].guild
    /\ call[a].pc = "returned" /\ call[b].pc = "returned"
    /\ call[a].tempFile # call[b].tempFile
    /\ ~Alive(a) /\ ~Alive(b)
    /\ \E t \in armed : t.guild = call[a].guild /\ t.due > IdleDelay

\* The calls that reach player.play (line 131) in this step, and the one of
\* them that reaches it last.
Returning == {k \in Calls : call[k].pc # "returned" /\ call'[k].pc = "returned"}
LastReturning == CHOOSE k \in Returning : \A j \in Returning : call'[j].rank <= call'[k].rank

\* C17: a play request on a guild with a live session plays on the session's
\* player, replacing what it plays; whenever play requests reach play(), the
\* guild's registered and subscribed player plays the resource of the last.
C17_LastPlayWins ==
  [][/\ \A k \in Calls :
          (WriteFinish(k) /\ Reusable(connections[call[k].guild])) =>
             /\ connections' = connections
             /\ player'[connections[call[k].guild].player] =
                  [status |-> "playing", resource |-> k]
     /\ Returning # {} =>
          LET k == LastReturning
              p == call'[k].player
          IN  /\ connections'[call'[k].guild] = [connection |-> call'[k].connection,
                                                 player |-> p]
              /\ subscription'[call'[k].connection] = p
              /\ player'[p] = [status |-> "playing", resource |-> k]]_vars

\* A later call's resource plays on a player whose creator's resource had not
\* finished: it was pre-empted.
C17_Witness ==
  \E p \in Players :
    /\ player[p].status = "playing"
    /\ player[p].resource # p
    /\ p \in idleListeners[p]

\* C20: with the cache connected, setAudio(k, b) followed at once by
\* getAudio(k) returns b, for every key and payload, the empty one included.
C20_PutThenGet ==
  connected =>
    \A u \in Urls, b \in Payloads :
      GetAudioResult(SetAudioStore(store, u, b, DefaultTtl), u) = [hit |-> TRUE, bytes |-> b]

\* C18: a /stop changes no playSound invocation, no playAudio call and no file;
\* a download that completes, its announcement accepted by Discord, is
\* followed by the call of playAudio whatever stops have run; that playAudio, handed a voice channel, joins when the
\* guild has no session, and plays when the connection is Ready.
C18_StopDoesNotAbortFetch ==
  [][/\ \A g \in Guilds :
          Disconnect(g) => /\ \A i \in Reqs : /\ req'[i].pc = req[i].pc
                                              /\ req'[i].result = req[i].result
                           /\ call' = call
                           /\ files' = files
     /\ \A i \in Reqs :
          (DownloadDone(i) /\ req'[i].result = "none")
            => /\ call[i].pc = "new"
               /\ call'[i].pc = "write"
               /\ call'[i].guild = req[i].guild
     /\ \A k \in Calls :
          (WriteFinish(k) /\ connections[call[k].guild] = NoEntry /\ call[k].channel) =>
             /\ call'[k].pc = "ready_wait"
             /\ connStatus'[call'[k].connection] \in {"signalling", "ready"}
     /\ \A c \in Conns :
          ConnReady(c) => \A k \in Waiters(c) :
                            /\ call'[k].pc = "returned"
                            /\ player'[call'[k].player] = [status |-> "playing", resource |-> k]
    ]_allVars

\* A request that saw a /stop while it fetched its audio has downloaded,
\* joined a connection of its own and is playing on it.
C18_Witness ==
  \E i \in Reqs :
    /\ req[i].stopped
    /\ req[i].source = "network"
    /\ call[i].pc = "returned"
    /\ call[i].connection = i
    /\ connStatus[i] = "ready"
    /\ player[call[i].player] = [status |-> "playing", resource |-> i]

\* The number of times the downloader was invoked for URL u.
Invocations(u) == Cardinality({i \in Reqs : req[i].url = u /\ req[i].invoked})

\* C19: of two requests for one URL, the second begun after the first has
\* returned, the first finding a cold and working cache and downloading its
\* bytes: the second gets its bytes from the cache and the downloader was
\* invoked once.
C19_SecondRequestFromCache ==
  \A i, j \in Reqs :
    ( /\ i # j
      /\ req[i].pc = "done" /\ req[j].pc = "done"
      /\ req[i].url = req[j].url
      /\ req[i].cold /\ req[i].lookup = "miss" /\ req[i].source = "network"
      /\ req[i].put \notin {"down", "error"}
      /\ i \in req[j].after /\ req[j].lookup \in {"hit", "miss"} )
    => /\ req[j].source = "cache"
       /\ Invocations(req[i].url) = 1

\* C21: clearAudio(k) leaves getAudio(k) returning null and, on a connected
\* cache, no entry for k; a second clearAudio(k), or one on a missing key,
\* changes nothing, and the entries of the other keys stay as they were.
C21_InvalidateIdempotent ==
  \A u \in Urls :
    LET cleared == ClearAudioStore(store, u) IN
      /\ GetAudioResult(cleared, u) = Null
      /\ connected => cleared[u] = NoValue
      /\ ClearAudioStore(cleared, u) = cleared
      /\ store[u] = NoValue => cleared = store
      /\ \A v \in Urls \ {u} : cleared[v] = store[v]

\* A connected cache holds an entry for every key: clearAudio of one of them
\* has an entry to remove and others to spare.
C21_Witness ==
  /\ connected
  /\ \A u \in Urls : Truthy(store[u])

\* C22: no call of getAudio, setAudio or clearAudio ends by throwing to its
\* caller, whether the cache is connected or not and whether Redis serves the
\* command or rejects it; a getAudio that met a rejection, or a cache that is
\* not connected, returned null.
C22_CacheFailuresSwallowed ==
  /\ last.end # "threw"
  /\ last.op # "none" => last.end = "returned"
  /\ (last.op = "get" /\ (last.failed \/ ~last.conn)) => got = Null

\* Redis holds an entry for every key and rejected the last getAudio.
C22_Witness ==
  /\ last.op = "get"
  /\ last.failed
  /\ \A u \in Urls : Truthy(store[u])

\* C25: on a connected cache, the bytes of the last setAudio that Redis served
\* for a key are what getAudio returns while less than the ttl given (the
\* default when none was given) has passed since that write, and getAudio
\* returns null once that time has passed; an overwrite counts as the write.
C25_EntryLivesForTtl ==
  connected =>
    \A u \in Urls :
      written[u].set =>
        LET t == IF written[u].arg = NoTtl THEN DefaultTtl ELSE written[u].arg
        IN  GetAudioResult(store, u) =
              IF written[u].age < t
                THEN [hit |-> TRUE, bytes |-> written[u].bytes]
                ELSE Null

\* C23: a request that downloaded its bytes and whose playAudio returned has
\* returned true as soon as it issued the cache write: it is done with result
\* true while the write is still unanswered, when the write was rejected, and
\* when the cache was not connected.
C23_PutNeverFailsPlayback ==
  \A i \in Reqs :
    req[i].put \in {"pending", "error", "down"} =>
      /\ req[i].pc = "done"
      /\ req[i].result = "true"
      /\ req[i].source = "network"
      /\ call[i].pc = "returned"

\* One request's cache write was rejected and another's is still unanswered.
C23_Witness ==
  \E i, j \in Reqs :
    /\ req[i].put = "error"
    /\ req[j].put = "pending"

\* C24: a request with voice access and an existing sound that did not get
\* its bytes from the cache (the cache is down, was never connected, or no
\* cache service was supplied) has called the downloader once it is past the
\* cache lookup, and if the download succeeded it has called playAudio with the
\* downloaded bytes.
C24_CacheUnavailablePlays ==
  \A i \in Reqs :
    ( /\ req[i].pc \notin {"idle", "lookup"}
      /\ req[i].channel /\ req[i].found
      /\ req[i].lookup # "hit" )
    => /\ req[i].invoked
       /\ req[i].pc \in {"play", "done"} /\ req[i].source = "network"
            => req[i].bytes = Body(req[i].url) /\ call[i].pc # "new"

\* C26: a request made without a valid voice channel has returned false at
\* once: it asked neither the cache nor the downloader, playAudio was not
\* called for it (so no temporary file, no join, no session or timer change
\* on its behalf), whichever calling pattern it came by.
C26_NoChannelAllocatesNothing ==
  \A i \in Reqs :
    (req[i].pc # "idle" /\ ~req[i].channel) =>
      /\ req[i].pc = "done" /\ req[i].result = "false"
      /\ req[i].lookup = "none"
      /\ ~req[i].invoked
      /\ call[i].pc = "new"

\* C27: a request whose download failed is done with result false; playAudio
\* was never called for it and it issued no cache write; and the step in which
\* the download fails changes nothing of the voice service (files, sessions,
\* timers, players) and nothing of the cache.
C27_DownloadFailureStops ==
  /\ [](\A i \in Reqs :
          req[i].source = "failed" =>
            /\ req[i].pc = "done" /\ req[i].result = "false"
            /\ call[i].pc = "new"
            /\ req[i].put = "none")
  /\ [][\A i \in Reqs :
          (req[i].pc = "download" /\ req'[i].source = "failed")
            => UNCHANGED <<vars, connected, store, written>>]_allVars

\* A download failed while the guild has a session that another request
\* started.
C27_Witness ==
  \E i, j \in Reqs :
    /\ req[i].source = "failed"
    /\ req[j].result = "true"
    /\ connections[req[i].guild] # NoEntry

\* C28: no guild ever holds more rows than the configured maximum, whatever
\* adds ran and however they interleaved, and a row an add evicted was a row
\* of the add's own guild, gone from the table when it was evicted.
C28_MaxPerGuildEnforced ==
  /\ \A g \in Guilds : GetCount(sounds, g) <= MaxSoundsPerGuild
  /\ \A k \in Cmds : cmd[k].evicted # NoRow => cmd[k].evicted[1] = cmd[k].guild

\* C29: the table never holds two rows with the same guild and URL; and an
\* addSound that found the guild already holding its URL, at its duplicate
\* check or at its INSERT, returned null and evicted no row.
C29_DuplicatesIgnored ==
  /\ \A n, m \in 1..Len(sounds) : sounds[n] = sounds[m] => n = m
  /\ \A k \in Cmds :
       cmd[k].held => cmd[k].add = "null" /\ cmd[k].evicted = NoRow

\* C30: a /play command that met a failure of a repository call (the
\* duplicate check of the command, or any query of addSound) and whose
\* download did not fail has called playAudio once it is over.
C30_StoreFailureNeverFailsPlay ==
  \A k \in Cmds :
    ( /\ cmd[k].pc \in {"play", "done"}
      /\ cmd[k].failed
      /\ cmd[k].download # "failed" )
    => cmd[k].played /\ call[k].pc # "new"

\* The connections some playAudio registered in the guild map (line 125) or
\* found registered there (lines 60-66) before it returned.
Registered(c) == \E k \in Calls : call[k].pc = "returned" /\ call[k].connection = c

\* C31: a reconnect-failure handler of connection c that finds another
\* connection in the guild's entry leaves the guild map as it is; and every
\* registered connection that is not destroyed is the one its guild's entry
\* holds.
C31_ReconnectFailureSparesLaterSession ==
  /\ [][\A c \in Conns :
          ( /\ ReconnectFail(c)
            /\ connections[ConnGuild(c)] # NoEntry
            /\ connections[ConnGuild(c)].connection # c )
          => connections' = connections]_vars
  /\ [](\A c \in Conns :
          (Registered(c) /\ connStatus[c] # "destroyed")
            => /\ connections[ConnGuild(c)] # NoEntry
               /\ connections[ConnGuild(c)].connection = c)

\* The reconnect-failure handler of a connection is pending while the guild's
\* entry holds a different connection, registered and live.
C31_Witness ==
  \E c, d \in Conns :
    /\ c # d
    /\ reconnecting[c]
    /\ ConnGuild(c) = ConnGuild(d)
    /\ connections[ConnGuild(c)] # NoEntry
    /\ connections[ConnGuild(c)].connection = d
    /\ connStatus[d] = "ready"

\* C32: an idle timer that fires and tears down the guild's session was armed
\* no earlier than the playAudio call that created that session's connection
\* began: a timer armed for an older session never destroys a session created
\* after it was armed.
C32_TimerSparesLaterSession ==
  [][\A g \in Guilds :
       TimerFire(g) =>
         \A t \in armed \ armed' :
           (connections[g] # NoEntry /\ connections'[g] = NoEntry)
             => call[connections[g].connection].tempFile <= t.due - IdleDelay]_vars


\* C33: in every reachable state a guild that has an idle-timer entry has a
\* session entry: no removal of a session leaves a timer entry behind, and a
\* fired timer leaves no stale entry in the timer map.
C33_TimerEntryOnlyWithSession ==
  \A g \in Guilds :
    disconnectTimers[g] # NoTimer => connections[g] # NoEntry


\* isConnected(guildId): this.connections.has(guildId), a lookup that assigns
\* nothing.
IsConnected(g) == connections[g] # NoEntry

\* C34: isConnected is true only for a live session: in every reachable state
\* every entry of the guild map holds a connection that has not been destroyed.
C34_EntriesHoldLiveConnections ==
  \A g \in Guilds :
    IsConnected(g) => connStatus[connections[g].connection] # "destroyed"


\* A guild's entry holds a live connection while another connection of the
\* guild has been destroyed.
C34_Witness ==
  \E g \in Guilds : \E c \in Conns :
    /\ IsConnected(g)
    /\ ConnGuild(c) = g
    /\ connStatus[c] = "destroyed"
    /\ connStatus[connections[g].connection] = "ready"


\* C35: the cache is written for a request only after its playAudio returned
\* and only with bytes that came from the network: a request that called
\* setAudio downloaded its bytes and has returned true after a playAudio that
\* returned, and every change of the stored entries is the SET of such a
\* request.  A request served from the cache, or whose playAudio threw, writes
\* nothing.
C35_CachePopulatedAfterPlayFromNetwork ==
  /\ [](\A i \in Reqs :
          req[i].put # "none"
            => /\ req[i].source = "network"
               /\ req[i].result = "true"
               /\ call[i].pc = "returned")
  /\ [][store' # store
          => \E i \in Reqs :
               /\ req[i].put = "pending" /\ req'[i].put = "stored"
               /\ req[i].source = "network"
               /\ call[i].pc = "returned"
               /\ \A u \in Urls : u # req[i].url => store'[u] = store[u]]_allVars

\* One request has populated the cache from the network, and another was then
\* served from the cache, played, and wrote nothing.
C35_Witness ==
  \E i, j \in Reqs :
    /\ req[i].put = "stored"
    /\ req[j].source = "cache" /\ req[j].result = "true" /\ req[j].put = "none"


\* C36: every playback path checks the cache before it invokes the
\* downloader: a /play command that is awaiting downloadSound, or has had it
\* settle, was preceded by a getAudio call of the cache service, and that
\* call gave no bytes.
C36_CacheCheckedBeforeDownload ==
  \A k \in Cmds :
    (cmd[k].pc = "download" \/ cmd[k].download # "none")
      => last.op = "get" /\ ~got.hit


\* C37: playSound never throws to its caller, and it returns true exactly
\* when its playAudio call returned: every finished request has result true
\* or false, true if and only if the request called playAudio and the call
\* returned; a request that has not finished has no result.
C37_PlaySoundNeverThrows ==
  \A i \in Reqs :
    /\ req[i].pc # "done" => req[i].result = "none"
    /\ req[i].pc = "done"
         => /\ req[i].result \in {"true", "false"}
            /\ req[i].result = "true" <=> call[i].pc = "returned"

\* One request returned true after its playAudio returned; another had its
\* bytes and returned false without calling playAudio, its reply rejected.
C37_Witness ==
  \E i, j \in Reqs :
    /\ req[i].pc = "done" /\ req[i].result = "true"
    /\ req[j].pc = "done" /\ req[j].result = "false"
    /\ req[j].source \in {"network", "cache"}
    /\ call[j].pc = "new"


----------------------------------------------------------------------------
\* Bot (src/unnamed/part_011): shutdown.

\* The keys of voiceService.connections.
InMap == {g \in Guilds : connections[g] # NoEntry}

\* The guilds whose disconnect throws: destroy() of a destroyed connection.
Throwers == {g \in InMap : DisconnectResult(g).ret = "threw"}

\* The loop as it would be if the deletion of the entry it is at ended the
\* iteration: it visits one guild.
VisitedFirstOnly == {P \in SUBSET InMap : Cardinality(P) = IF InMap = {} THEN 0 ELSE 1}

\* The sets of guilds the for-of loop of lines 198-200 can have called
\* disconnect for when it ends.  A Map iterator visits every entry that is in
\* the map when it comes to it, and the deletion of the visited entry does not
\* disturb it: every key, unless a disconnect throws, which leaves the loop
\* for the catch of line 210 after the guilds that came before.
Visited ==
  IF Throwers = {}
    THEN {InMap}
    ELSE {Q \cup {g} : Q \in SUBSET (InMap \ Throwers), g \in Throwers}

\* shutdown, lines 193-200: disconnect(guildId) for the guilds of P, each
\* call touching its own guild's entry, timer and connection only.
Shutdown ==
  \E P \in Visited :
    /\ connections' = [g \in Guilds |->
                         IF g \in P THEN DisconnectResult(g).connections[g]
                                    ELSE connections[g]]
    /\ disconnectTimers' = [g \in Guilds |->
                              IF g \in P THEN DisconnectResult(g).disconnectTimers[g]
                                         ELSE disconnectTimers[g]]
    /\ armed' = {t \in armed : t.guild \in P => t \in DisconnectResult(t.guild).armed}
    /\ connStatus' = [c \in Conns |->
                        IF ConnGuild(c) \in P
                          THEN DisconnectResult(ConnGuild(c)).connStatus[c]
                          ELSE connStatus[c]]
    /\ subscription' = [c \in Conns |->
                          IF ConnGuild(c) \in P
                            THEN DisconnectResult(ConnGuild(c)).subscription[c]
                            ELSE subscription[c]]
    /\ UNCHANGED <<others, now, files, call, reconnecting, player, idleListeners, jobs>>

\* The VoiceService of a Bot that can be told to shut down at any moment.
BotNext ==
  \/ Next
  \/ Shutdown

BotSpec == Init /\ [][BotNext]_vars

\* C38: shutdown disconnects every guild: after its loop the guild map is
\* empty, the connection of every entry the map held is destroyed, and no
\* idle timer is armed or recorded for a guild that had an entry.
C38_ShutdownDisconnectsAll ==
  [][Shutdown =>
       /\ \A g \in Guilds : connections'[g] = NoEntry
       /\ \A g \in InMap :
            /\ connStatus'[connections[g].connection] = "destroyed"
            /\ disconnectTimers'[g] = NoTimer
            /\ \A t \in armed' : t.guild # g]_vars

\* The sessions of two guilds, both registered by playAudio calls that
\* returned, are gone: both connections destroyed, the map empty, no timer
\* armed.
C38_Witness ==
  \E c, d \in Conns :
    /\ ConnGuild(c) # ConnGuild(d)
    /\ Registered(c) /\ Registered(d)
    /\ connStatus[c] = "destroyed" /\ connStatus[d] = "destroyed"
    /\ InMap = {}
    /\ armed = {}

====
